---- MODULE Spec2Model ----
(***************************************************************************)
(* Model of gslib/daisy_chain_wrapper.py: the bounded-buffer bridge        *)
(* (DaisyChainWrapper) between a background download thread, which writes  *)
(* chunks through BufferWrapper.write, and the upload client, which calls  *)
(* read / tell / seek.                                                     *)
(*                                                                         *)
(* Bytes are not modelled by value: a chunk is the record                  *)
(* [off, len, task], the source bytes [off, off+len) of the object as      *)
(* written by download thread number task.                                 *)
(***************************************************************************)
EXTENDS Integers, Sequences, FiniteSets

\* Scaled-down values of the program's size constants.
DAISY_CHAIN_CHUNK_SIZE == 3
TRANSFER_BUFFER_SIZE == 2
max_buffer_size == 2

\* Bounds of the model: the largest source object, and the number of download
\* threads ever started (the constructor's, then one per restart).
MaxSize == 5
MaxThreads == 2

VARIABLES
  src_obj_size,     \* size of the source object (immutable after Init)
  position,         \* self.position
  buffer,           \* self.buffer, a deque of chunks
  bytes_buffered,   \* self.bytes_buffered
  last_position,    \* self.last_position
  last_data,        \* self.last_data: <<>> is None, <<c>> is chunk c
  lock,             \* holders of self.lock: 0 is the consumer, t >= 1 thread t
  stop_download,    \* self.stop_download (threading.Event)
  download_thread,  \* self.download_thread: index of the last thread started
  threads,          \* the download threads ever created, by index
  cpc,              \* consumer: position in the current call
  call,             \* consumer: the call in progress and its locals
  prev,             \* history: the last completed consumer call and how it ended
  sequential,       \* history: every consumer call so far was tell or read(TRANSFER_BUFFER_SIZE)
  written,          \* history: chunks appended by write while sequential
  delivered,        \* history: chunks returned by read while sequential
  afterRestart      \* history: a restart completed and only reads/tells were called since

bridge == <<position, buffer, bytes_buffered, last_position, last_data>>
control == <<stop_download, download_thread, threads>>
history == <<prev, sequential, written, delivered, afterRestart>>
vars == <<src_obj_size, position, buffer, bytes_buffered, last_position,
          last_data, lock, stop_download, download_thread, threads, cpc, call,
          prev, sequential, written, delivered, afterRestart>>

----------------------------------------------------------------------------
\* Helpers.

RECURSIVE SumLen(_)
SumLen(s) == IF s = <<>> THEN 0 ELSE Head(s).len + SumLen(Tail(s))

Chunk(off, n, t) == [off |-> off, len |-> n, task |-> t]

\* A thread that was never started, and one that has exited.
NewThread == [pc |-> "new", start_byte |-> 0, cur |-> 0, end |-> 0,
              final |-> FALSE, data |-> <<>>]
DeadThread == [NewThread EXCEPT !.pc = "dead"]

\* Mutation of StartedThread: the new thread starts at byte 0 whatever the offset.
StartedAtZero(start_byte) == [NewThread EXCEPT !.pc = "loop"]

\* threading.Thread(target=PerformDownload, args=(start_byte,)).start()
StartedThread(start_byte) == [NewThread EXCEPT !.pc = "loop", !.start_byte = start_byte]

\* Thread.is_alive()
IsAlive(t) == threads[t].pc \notin {"new", "dead"}

\* The consumer between two calls.
NoCall == [op |-> "none", arg |-> <<>>, data |-> <<>>]

AliveThreads == {t \in 1..MaxThreads : IsAlive(t)}

----------------------------------------------------------------------------
\* DaisyChainWrapper.__init__, including its call of StartDownloadThread().

Init ==
  /\ src_obj_size \in 0..MaxSize
  /\ position = 0
  /\ buffer = <<>>
  /\ bytes_buffered = 0
  /\ last_position = 0
  /\ last_data = <<>>
  /\ lock = {}
  /\ stop_download = FALSE
  /\ download_thread = 1
  /\ threads = [t \in 1..MaxThreads |-> IF t = 1 THEN StartedThread(0) ELSE NewThread]
  /\ cpc = "idle"
  /\ call = NoCall
  /\ prev = [op |-> "none", ret |-> "none", arg |-> 0]
  /\ sequential = TRUE
  /\ written = <<>>
  /\ delivered = <<>>
  /\ afterRestart = FALSE

----------------------------------------------------------------------------
\* The download thread: PerformDownload, the fetch client's GetObjectMedia
\* writing into the sink, and BufferWrapper.write.

\* while start_byte + DAISY_CHAIN_CHUNK_SIZE < self.src_obj_size
MoreWindows(start_byte) == start_byte + DAISY_CHAIN_CHUNK_SIZE < src_obj_size

\* Top of PerformDownload's loop: issue the next windowed request
\* [start_byte, start_byte + DAISY_CHAIN_CHUNK_SIZE - 1], or the final
\* open-ended request from start_byte.
PerformDownload(t) ==
  /\ threads[t].pc = "loop"
  /\ LET th == threads[t]
         windowed == MoreWindows(th.start_byte)
     IN threads' = [threads EXCEPT ![t] =
          [th EXCEPT !.pc = "get",
                     !.cur = th.start_byte,
                     !.end = IF windowed THEN th.start_byte + DAISY_CHAIN_CHUNK_SIZE
                                         ELSE src_obj_size,
                     !.final = ~windowed]]
  /\ UNCHANGED <<src_obj_size, bridge, lock, stop_download, download_thread,
                 cpc, call, history>>

\* GetObjectMedia hands the sink the next piece of the requested range, of
\* at most TRANSFER_BUFFER_SIZE bytes.
GetObjectMediaChunk(t) ==
  /\ threads[t].pc = "get"
  /\ threads[t].cur < threads[t].end
  /\ \E n \in 1..TRANSFER_BUFFER_SIZE :
       /\ n <= threads[t].end - threads[t].cur
       /\ threads' = [threads EXCEPT ![t].pc = "w_check",
                                     ![t].data = <<Chunk(threads[t].cur, n, t)>>]
  /\ UNCHANGED <<src_obj_size, bridge, lock, stop_download, download_thread,
                 cpc, call, history>>

\* GetObjectMedia returns once the whole range went to the sink.  After the
\* final request PerformDownload returns and the thread exits.
GetObjectMediaDone(t) ==
  /\ threads[t].pc = "get"
  /\ threads[t].cur >= threads[t].end
  /\ threads' = [threads EXCEPT ![t] =
       IF threads[t].final THEN DeadThread
                           ELSE [threads[t] EXCEPT !.pc = "stopcheck"]]
  /\ UNCHANGED <<src_obj_size, bridge, lock, stop_download, download_thread,
                 cpc, call, history>>

\* if self.stop_download.is_set(): clear it and return; else next window.
StopCheck(t) ==
  /\ threads[t].pc = "stopcheck"
  /\ IF stop_download
       THEN /\ stop_download' = FALSE
            /\ threads' = [threads EXCEPT ![t] = DeadThread]
       ELSE /\ stop_download' = stop_download
            /\ threads' = [threads EXCEPT
                 ![t].pc = "loop",
                 ![t].start_byte = threads[t].start_byte + DAISY_CHAIN_CHUNK_SIZE]
  /\ UNCHANGED <<src_obj_size, bridge, lock, download_thread, cpc, call, history>>

\* Mutation of HasSpace: write waits for room for a whole chunk.
HasSpaceForWholeChunk == bytes_buffered + TRANSFER_BUFFER_SIZE <= max_buffer_size - 1

\* BufferWrapper.write: bytes_buffered < max_buffer_size
HasSpace == bytes_buffered < max_buffer_size

\* BufferWrapper.write, the polling loop: one look at the counter under the
\* lock.  A full buffer leaves the thread polling (no step).
WriteCheck(t) ==
  /\ threads[t].pc = "w_check"
  /\ lock = {}
  /\ HasSpace
  /\ threads' = [threads EXCEPT ![t].pc = "w_append"]
  /\ UNCHANGED <<src_obj_size, bridge, lock, stop_download, download_thread,
                 cpc, call, history>>

\* deque.append(data)
DequeAppend(buf, data) == Append(buf, data)

\* BufferWrapper.write: with lock: buffer.append(data) ...
WriteAppend(t) ==
  /\ threads[t].pc = "w_append"
  /\ lock = {}
  /\ lock' = {t}
  /\ buffer' = DequeAppend(buffer, threads[t].data[1])
  /\ written' = IF sequential THEN Append(written, threads[t].data[1]) ELSE written
  /\ threads' = [threads EXCEPT ![t].pc = "w_count"]
  /\ UNCHANGED <<src_obj_size, position, bytes_buffered, last_position, last_data,
                 stop_download, download_thread, cpc, call, prev, sequential,
                 delivered, afterRestart>>

\* ... bytes_buffered += data_len, and the lock is released; write returns.
WriteCount(t) ==
  /\ threads[t].pc = "w_count"
  /\ lock = {t}
  /\ lock' = {}
  /\ bytes_buffered' = bytes_buffered + threads[t].data[1].len
  /\ threads' = [threads EXCEPT ![t].pc = "get",
                                ![t].cur = threads[t].cur + threads[t].data[1].len,
                                ![t].data = <<>>]
  /\ UNCHANGED <<src_obj_size, position, buffer, last_position, last_data,
                 stop_download, download_thread, cpc, call, history>>

Fetch(t) ==
  \/ PerformDownload(t)
  \/ GetObjectMediaChunk(t)
  \/ GetObjectMediaDone(t)
  \/ StopCheck(t)
  \/ WriteCheck(t)
  \/ WriteAppend(t)
  \/ WriteCount(t)

----------------------------------------------------------------------------
\* The consumer (upload client): read, tell and seek.

\* Optional values: <<>> is None, <<v>> is the value v.
None == <<>>
AmtValues == {None} \cup {<<n>> : n \in -1..(TRANSFER_BUFFER_SIZE + 1)}
Offsets == 0..(MaxSize + 1)

\* A call returns (or raises): the consumer is between calls again.
\* prev keeps the offset of a SEEK_SET seek that took effect, and the value
\* a tell returned.
Return(op, ret, arg) ==
  /\ cpc' = "idle"
  /\ call' = NoCall
  /\ prev' = [op |-> op, ret |-> ret, arg |-> arg]

\* Mutation of ReadIsEmpty: a zero amt is not looked at.
ReadIsEmptyAtEndOnly(amt) == position = src_obj_size

\* read: if self.position == self.src_obj_size or amt == 0: return ''
ReadIsEmpty(amt) == position = src_obj_size \/ amt = <<0>>

\* Mutation of ReadAmtInvalid: no upper limit on amt.
ReadAmtInvalidNoneOnly(amt) == amt = None

\* read: if amt is None or amt > TRANSFER_BUFFER_SIZE: raise BadRequestException
ReadAmtInvalid(amt) == amt = None \/ amt[1] > TRANSFER_BUFFER_SIZE

\* read(amt), up to the polling loop.
ReadCall(amt) ==
  /\ cpc = "idle"
  /\ IF ReadIsEmpty(amt)
       THEN Return("read", "empty", 0)
       ELSE IF ReadAmtInvalid(amt)
         THEN Return("read", "InvalidRequest", 0)
         ELSE /\ cpc' = "r_wait"
              /\ call' = [op |-> "read", arg |-> amt, data |-> None]
              /\ prev' = prev
  /\ sequential' = (sequential /\ amt = <<TRANSFER_BUFFER_SIZE>>)
  /\ written' = IF sequential' THEN written ELSE <<>>
  /\ delivered' = IF sequential' THEN delivered ELSE <<>>
  /\ UNCHANGED <<src_obj_size, bridge, lock, control, afterRestart>>

\* read, the polling loop: with self.lock: if self.buffer: break.  An empty
\* buffer leaves the consumer polling (no step).
ReadWait ==
  /\ cpc = "r_wait"
  /\ lock = {}
  /\ buffer # <<>>
  /\ cpc' = "r_pop"
  /\ UNCHANGED <<src_obj_size, bridge, lock, control, call, history>>

\* Mutation of PopLeftValue: deque.pop(), the newest chunk instead of the oldest.
PopRightValue(buf) == buf[Len(buf)]

\* deque.popleft(): the element returned and the deque left.
PopLeftValue(buf) == Head(buf)
PopLeftRest(buf) == Tail(buf)

\* read: with self.lock: data = buffer.popleft(); last_position = position;
\* last_data = data ...
ReadPop ==
  /\ cpc = "r_pop"
  /\ lock = {}
  /\ lock' = {0}
  /\ call' = [call EXCEPT !.data = <<PopLeftValue(buffer)>>]
  /\ buffer' = PopLeftRest(buffer)
  /\ last_position' = position
  /\ last_data' = <<PopLeftValue(buffer)>>
  /\ cpc' = "r_upd"
  /\ UNCHANGED <<src_obj_size, position, bytes_buffered, control, history>>

\* ... position += data_len; bytes_buffered -= data_len; the lock is
\* released; then data_len > amt raises, else data is returned.
ReadUpdate ==
  /\ cpc = "r_upd"
  /\ lock = {0}
  /\ lock' = {}
  /\ LET data == call.data[1]
     IN /\ position' = position + data.len
        /\ bytes_buffered' = bytes_buffered - data.len
        /\ IF data.len > call.arg[1]
             THEN /\ Return("read", "InvalidRequest", 0)
                  /\ delivered' = delivered
             ELSE /\ Return("read", "data", 0)
                  /\ delivered' = IF sequential THEN Append(delivered, data)
                                                ELSE delivered
  /\ UNCHANGED <<src_obj_size, buffer, last_position, last_data, control,
                 sequential, written, afterRestart>>

\* tell: with self.lock: return self.position
Tell ==
  /\ cpc = "idle"
  /\ lock = {}
  /\ Return("tell", "ok", position)
  /\ UNCHANGED <<src_obj_size, bridge, lock, control, sequential, written,
                 delivered, afterRestart>>

\* A seek ends the sequential history.
EndSequential ==
  /\ sequential' = FALSE
  /\ written' = <<>>
  /\ delivered' = <<>>
  /\ afterRestart' = FALSE

\* Mutation of SeekEnd: the seek to the end keeps last_data.
SeekEndKeepsLastData(offset) ==
  /\ cpc = "idle"
  /\ IF offset # 0
       THEN /\ Return("seek", "InvalidRequest", 0)
            /\ UNCHANGED <<bridge, lock>>
       ELSE /\ lock = {}
            /\ last_position' = position
            /\ position' = src_obj_size
            /\ Return("seek", "end", 0)
            /\ UNCHANGED <<buffer, bytes_buffered, last_data, lock>>
  /\ EndSequential
  /\ UNCHANGED <<src_obj_size, control>>

\* seek(offset, os.SEEK_END)
SeekEnd(offset) ==
  /\ cpc = "idle"
  /\ IF offset # 0
       THEN /\ Return("seek", "InvalidRequest", 0)
            /\ UNCHANGED <<bridge, lock>>
       ELSE /\ lock = {}
            /\ last_position' = position
            /\ last_data' = None
            /\ position' = src_obj_size
            /\ Return("seek", "end", 0)
            /\ UNCHANGED <<buffer, bytes_buffered, lock>>
  /\ EndSequential
  /\ UNCHANGED <<src_obj_size, control>>

\* seek(offset, whence) with a whence that is neither SEEK_SET nor SEEK_END
SeekOther(offset) ==
  /\ cpc = "idle"
  /\ Return("seek", "IOError", 0)
  /\ EndSequential
  /\ UNCHANGED <<src_obj_size, bridge, lock, control>>

\* Mutation of SeekBranch: last_position is compared before position.
SeekBranchRewindFirst(offset) ==
  IF offset = last_position THEN "rewind"
  ELSE IF offset = position THEN "pass"
  ELSE "restart"

\* seek, os.SEEK_SET: which of the three branches the offset takes.
SeekBranch(offset) ==
  IF offset = position THEN "pass"
  ELSE IF offset = last_position THEN "rewind"
  ELSE "restart"

\* Mutation of DequeAppendLeft: the chunk goes to the back of the deque.
DequeAppendRight(buf, data) == Append(buf, data)

\* deque.appendleft(data)
DequeAppendLeft(buf, data) == <<data>> \o buf

\* seek(offset, os.SEEK_SET): the first locked section.  A restart is left
\* to the steps below (restart_download = True).
SeekSet(offset) ==
  /\ cpc = "idle"
  /\ lock = {}
  /\ LET branch == SeekBranch(offset)
     IN \/ /\ branch = "pass"
           /\ Return("seek", "pass", offset)
           /\ UNCHANGED <<bridge, lock>>
        \/ /\ branch = "rewind"
           /\ position' = last_position
           /\ IF last_data # None /\ last_data[1].len > 0
                THEN /\ buffer' = DequeAppendLeft(buffer, last_data[1])
                     /\ lock' = {0}
                     /\ cpc' = "s_count"
                     /\ call' = [op |-> "seek", arg |-> <<offset>>, data |-> None]
                     /\ prev' = prev
                ELSE /\ Return("seek", "rewind", offset)
                     /\ UNCHANGED <<buffer, lock>>
           /\ UNCHANGED <<bytes_buffered, last_position, last_data>>
        \/ /\ branch = "restart"
           /\ download_thread < MaxThreads
           /\ cpc' = "s_stop"
           /\ call' = [op |-> "seek", arg |-> <<offset>>, data |-> None]
           /\ prev' = prev
           /\ UNCHANGED <<bridge, lock>>
  /\ EndSequential
  /\ UNCHANGED <<src_obj_size, control>>

\* seek, rewind: self.bytes_buffered += len(self.last_data); lock released.
SeekCount ==
  /\ cpc = "s_count"
  /\ lock = {0}
  /\ lock' = {}
  /\ bytes_buffered' = bytes_buffered + last_data[1].len
  /\ Return("seek", "rewind", call.arg[1])
  /\ UNCHANGED <<src_obj_size, position, buffer, last_position, last_data, control,
                 sequential, written, delivered, afterRestart>>

\* seek, restart: self.stop_download.set()
SeekStop ==
  /\ cpc = "s_stop"
  /\ stop_download' = TRUE
  /\ cpc' = "s_alive"
  /\ UNCHANGED <<src_obj_size, bridge, lock, download_thread, threads, call, history>>

\* Mutation of MustWaitForThread: seek does not wait for the thread to exit.
NeverWaitForThread == FALSE

\* seek, restart: while self.download_thread.is_alive()
MustWaitForThread == IsAlive(download_thread)

SeekAlive ==
  /\ cpc = "s_alive"
  /\ cpc' = IF MustWaitForThread THEN "s_drain" ELSE "s_reset"
  /\ UNCHANGED <<src_obj_size, bridge, lock, control, call, history>>

\* seek, restart, the drain: with self.lock: ...
SeekDrainLock ==
  /\ cpc = "s_drain"
  /\ lock = {}
  /\ lock' = {0}
  /\ cpc' = "s_drainloop"
  /\ UNCHANGED <<src_obj_size, bridge, control, call, history>>

\* Mutation of SeekDrain: the drain takes nothing out of the buffer.
SeekDrainNothing ==
  /\ cpc = "s_drainloop"
  /\ lock = {0}
  /\ lock' = {}
  /\ cpc' = "s_alive"
  /\ UNCHANGED <<src_obj_size, bridge, control, call, history>>

\* ... while self.bytes_buffered: bytes_buffered -= len(buffer.popleft());
\* then the lock is released and the thread is looked at again.
SeekDrain ==
  /\ cpc = "s_drainloop"
  /\ lock = {0}
  /\ IF bytes_buffered # 0
       THEN /\ bytes_buffered' = bytes_buffered - PopLeftValue(buffer).len
            /\ buffer' = PopLeftRest(buffer)
            /\ UNCHANGED <<lock, cpc>>
       ELSE /\ lock' = {}
            /\ cpc' = "s_alive"
            /\ UNCHANGED <<buffer, bytes_buffered>>
  /\ UNCHANGED <<src_obj_size, position, last_position, last_data, control, call,
                 history>>

\* Mutation of ResetBuffer: the reset keeps the old deque.
KeepBuffer(buf) == buf

\* seek, restart: self.buffer = deque()
ResetBuffer(buf) == <<>>

\* Mutation of SeekReset: the restart keeps last_data.
SeekResetKeepsLastData ==
  /\ cpc = "s_reset"
  /\ lock = {}
  /\ position' = call.arg[1]
  /\ buffer' = ResetBuffer(buffer)
  /\ bytes_buffered' = 0
  /\ last_position' = 0
  /\ cpc' = "s_start"
  /\ UNCHANGED <<src_obj_size, last_data, lock, control, call, history>>

\* seek, restart, once the thread has exited: with self.lock: position =
\* offset; buffer = deque(); bytes_buffered = 0; last_position = 0;
\* last_data = None
SeekReset ==
  /\ cpc = "s_reset"
  /\ lock = {}
  /\ position' = call.arg[1]
  /\ buffer' = ResetBuffer(buffer)
  /\ bytes_buffered' = 0
  /\ last_position' = 0
  /\ last_data' = None
  /\ cpc' = "s_start"
  /\ UNCHANGED <<src_obj_size, lock, control, call, history>>

\* seek, restart: self.StartDownloadThread(start_byte=offset); seek returns.
StartDownloadThread ==
  /\ cpc = "s_start"
  /\ download_thread' = download_thread + 1
  /\ threads' = [threads EXCEPT ![download_thread + 1] = StartedThread(call.arg[1])]
  /\ Return("seek", "restart", call.arg[1])
  /\ afterRestart' = TRUE
  /\ UNCHANGED <<src_obj_size, bridge, lock, stop_download, sequential,
                 written, delivered>>

Consumer ==
  \/ \E amt \in AmtValues : ReadCall(amt)
  \/ ReadWait
  \/ ReadPop
  \/ ReadUpdate
  \/ Tell
  \/ \E offset \in Offsets : SeekEnd(offset)
  \/ \E offset \in Offsets : SeekOther(offset)
  \/ \E offset \in Offsets : SeekSet(offset)
  \/ SeekCount
  \/ SeekStop
  \/ SeekAlive
  \/ SeekDrainLock
  \/ SeekDrain
  \/ SeekReset
  \/ StartDownloadThread

Next == (\E t \in 1..MaxThreads : Fetch(t)) \/ Consumer

Spec == Init /\ [][Next]_vars

\* The steps the consumer takes inside a call.  Starting a call is up to the
\* caller; once in read or seek the consumer thread runs on.
ConsumerStep ==
  \/ ReadWait
  \/ ReadPop
  \/ ReadUpdate
  \/ SeekCount
  \/ SeekStop
  \/ SeekAlive
  \/ SeekDrainLock
  \/ SeekDrain
  \/ SeekReset
  \/ StartDownloadThread

\* Fair scheduling of the threads: each polling loop yields with
\* time.sleep(0) after releasing the lock, so a thread that can take the lock
\* again and again does get it; a full (empty) buffer keeps write (read)
\* polling.
FairSpec ==
  /\ Spec
  /\ \A t \in 1..MaxThreads : SF_vars(Fetch(t))
  /\ SF_vars(ConsumerStep)

\* The bridge used for one sequential copy: the caller only calls
\* read(TRANSFER_BUFFER_SIZE) and tell, and never seeks.
ReadingNext ==
  \/ \E t \in 1..MaxThreads : Fetch(t)
  \/ ReadCall(<<TRANSFER_BUFFER_SIZE>>)
  \/ ReadWait
  \/ ReadPop
  \/ ReadUpdate
  \/ Tell

\* The sequential copy under fair scheduling, with a caller that keeps
\* calling read(TRANSFER_BUFFER_SIZE).
ReadingSpec ==
  /\ Init
  /\ [][ReadingNext]_vars
  /\ \A t \in 1..MaxThreads : SF_vars(Fetch(t))
  /\ SF_vars(ConsumerStep)
  /\ WF_vars(ReadCall(<<TRANSFER_BUFFER_SIZE>>))

----------------------------------------------------------------------------
\* Properties.

\* The chunks of s are consecutive pieces of the source object starting at off.
RECURSIVE Contiguous(_, _)
Contiguous(s, off) ==
  \/ s = <<>>
  \/ Head(s).off = off /\ Head(s).len > 0 /\ Contiguous(Tail(s), off + Head(s).len)

\* The chunk read has popped and not yet returned.
InFlight == IF cpc = "r_upd" THEN call.data ELSE <<>>

\* C1: as long as the consumer has only called read(TRANSFER_BUFFER_SIZE) and
\* tell, the chunks returned by read, followed by the chunk being returned and
\* the chunks still buffered, are exactly the chunks the download thread wrote,
\* in the order it wrote them; these are consecutive source bytes from offset 0
\* and never go beyond src_obj_size; and position is the number of bytes
\* returned.
C1_InOrderDelivery ==
  sequential =>
    /\ written = delivered \o InFlight \o buffer
    /\ Contiguous(written, 0)
    /\ SumLen(written) <= src_obj_size
    /\ position = SumLen(delivered)

\* C1 witness: a whole object of several chunks was read, without any seek.
C1_Witness ==
  /\ sequential
  /\ cpc = "idle"
  /\ Len(delivered) >= 3
  /\ position = src_obj_size
  /\ written = delivered

\* A step in which the call in progress returns to the consumer.
Returns(op) == call.op = op /\ cpc' = "idle"

\* Every chunk of s was written by download thread t.
AllFrom(s, t) == \A i \in 1..Len(s) : s[i].task = t

\* C2: a seek(o, SEEK_SET) with o neither position nor last_position takes the
\* restart path; when it returns, position is o and no chunk of an earlier
\* download thread is left in the buffer; and from then until the next call
\* ends, the buffer holds only chunks of the thread this seek started, which are
\* consecutive source bytes from o, so that a chunk returned by the next read
\* starts at o and comes from that thread.
C2_SeekRestartsAtOffset ==
  [][ /\ \A o \in Offsets :
           (SeekSet(o) /\ o # position /\ o # last_position)
             => (cpc' = "s_stop" /\ call'.arg = <<o>>)
      /\ (cpc = "s_start" /\ Returns("seek"))
           => /\ position' = call.arg[1]
              /\ prev' = [op |-> "seek", ret |-> "restart", arg |-> call.arg[1]]
              /\ AllFrom(buffer', download_thread')
              /\ download_thread' # download_thread
      /\ (prev.ret = "restart" /\ call.op # "seek")
           => /\ AllFrom(InFlight \o buffer, download_thread)
              /\ Contiguous(InFlight \o buffer, prev.arg)
      /\ (prev.ret = "restart" /\ Returns("read") /\ prev'.ret = "data")
           => /\ call.data[1].off = prev.arg
              /\ call.data[1].task = download_thread
              /\ position' = prev.arg + call.data[1].len
    ]_vars

\* C2 witness: the read after a restart at a non-zero offset, issued after the
\* first thread had delivered data, is about to return the chunk at that offset.
C2_Witness ==
  /\ prev.ret = "restart"
  /\ prev.arg > 0
  /\ cpc = "r_upd"
  /\ call.data[1].off = prev.arg
  /\ call.data[1].len <= call.arg[1]
  /\ download_thread = 2

\* C3, as a statement about states: after a restart at an offset within the
\* object, while the consumer only reads, the consumer is never left with
\* bytes still to read, an empty buffer and no download thread to fill it.
C3_ReadsAfterRestartReachEnd ==
  (afterRestart /\ position < src_obj_size /\ AliveThreads = {})
    => (buffer # <<>> \/ InFlight # <<>>)

\* C4: a read that returns chunk d leaves d in last_data and its old position
\* in last_position; seek(last_position, SEEK_SET) right after it sets position
\* back, puts d at the front of the buffer and adds len(d) to bytes_buffered,
\* and does not touch the stop signal or the download threads; the next read
\* that takes a chunk takes d again and, returning it, leaves position at the
\* rewound position plus len(d); a seek from there to an earlier offset takes
\* the restart path.
C4_RewindReplaysLastChunk ==
  [][ /\ cpc = "r_upd" => (last_data = call.data /\ last_position = position)
      /\ (prev.op = "read" /\ prev.ret = "data" /\ cpc = "idle" /\ SeekSet(last_position))
           => /\ cpc' = "s_count"
              /\ position' = last_position
              /\ buffer' = <<last_data[1]>> \o buffer
              /\ UNCHANGED <<last_data, control>>
      /\ (cpc = "s_count" /\ Returns("seek"))
           => /\ bytes_buffered' = bytes_buffered + last_data[1].len
              /\ prev' = [op |-> "seek", ret |-> "rewind", arg |-> position]
              /\ UNCHANGED <<position, buffer, last_data, control>>
      /\ (prev.ret = "rewind" /\ last_data # None /\ cpc \in {"idle", "r_wait", "r_pop"})
           => /\ position = prev.arg
              /\ buffer # <<>>
              /\ Head(buffer) = last_data[1]
      /\ (prev.ret = "rewind" /\ last_data # None /\ cpc = "r_pop" /\ cpc' = "r_upd")
           => call'.data = last_data
      /\ (prev.ret = "rewind" /\ Returns("read") /\ prev'.ret = "data")
           => position' = prev.arg + call.data[1].len
      /\ \A q \in Offsets :
           (prev.ret = "rewind" /\ q < prev.arg /\ SeekSet(q)) => cpc' = "s_stop"
    ]_vars

\* C4 witness: after a read and a rewind to last_position, with another chunk
\* behind the replayed one, the next read has taken the replayed chunk.
C4_Witness ==
  /\ prev.ret = "rewind"
  /\ prev.arg > 0
  /\ cpc = "r_upd"
  /\ call.data[1].off = prev.arg
  /\ buffer # <<>>

C6_AtMostOneThread ==
  /\ Cardinality(AliveThreads) <= 1
  /\ cpc = "s_start" => AliveThreads = {}

\* C6 witness: the thread started by a restart is writing, the one before it
\* has exited.
C6_Witness ==
  /\ download_thread = 2
  /\ AliveThreads = {2}
  /\ threads[2].pc = "w_count"

\* C7, as stated: position stays within the object.
C7_PositionInRange == 0 <= position /\ position <= src_obj_size

\* C8: whenever the lock is free, bytes_buffered is the total length of the
\* chunks in the buffer.
C8_CountMatchesBuffer == lock = {} => bytes_buffered = SumLen(buffer)

\* C8 witness: the lock is free after a rewind put a chunk back in front of
\* another one.
C8_Witness ==
  /\ lock = {}
  /\ prev.ret = "rewind"
  /\ Len(buffer) >= 2
  /\ bytes_buffered > max_buffer_size

\* C9: read(amt) at position = src_obj_size, or with amt = 0, returns an empty
\* result in the one step of the call, whatever the buffer and the download
\* thread are doing, and changes nothing of the bridge; a read that is waiting
\* for the buffer is never one of these.
C9_EmptyReadReturnsAtOnce ==
  [][ /\ \A amt \in AmtValues :
           (ReadCall(amt) /\ (position = src_obj_size \/ amt = <<0>>))
             => /\ cpc' = "idle"
                /\ prev' = [op |-> "read", ret |-> "empty", arg |-> 0]
                /\ UNCHANGED <<bridge, lock, control>>
      /\ call.op = "read" => (call.arg # <<0>> /\ position # src_obj_size)
    ]_vars

\* C9 witness: read(0) has returned empty before the end of the object, the
\* buffer empty and the download thread gone.
C9_Witness ==
  /\ prev = [op |-> "read", ret |-> "empty", arg |-> 0]
  /\ position < src_obj_size
  /\ buffer = <<>>
  /\ AliveThreads = {}

\* amt is absent or not in (0, TRANSFER_BUFFER_SIZE].
AmtOutside(amt) == amt = None \/ amt[1] <= 0 \/ amt[1] > TRANSFER_BUFFER_SIZE

\* C10, as stated: before the end of the object, a read whose amt is absent or
\* outside (0, TRANSFER_BUFFER_SIZE] ends with InvalidRequest.
C10_OutsideAmtFails ==
  [][ /\ \A amt \in AmtValues :
           (ReadCall(amt) /\ position < src_obj_size /\ AmtOutside(amt) /\ cpc' = "idle")
             => prev'.ret = "InvalidRequest"
      /\ (Returns("read") /\ AmtOutside(call.arg)) => prev'.ret = "InvalidRequest"
    ]_vars

\* C10, amended: before the end of the object, a read with amt absent or above
\* TRANSFER_BUFFER_SIZE ends with InvalidRequest in the step of the call; a
\* read with a negative amt waits for a chunk and then ends with
\* InvalidRequest, never with data; read(0) ends with an empty result.
C10_BadAmtFailsZeroIsEmpty ==
  [][ /\ \A amt \in AmtValues :
           (ReadCall(amt) /\ position < src_obj_size)
             => /\ (amt = None \/ amt[1] > TRANSFER_BUFFER_SIZE)
                     => (cpc' = "idle" /\ prev'.ret = "InvalidRequest")
                /\ (amt # None /\ amt[1] < 0) => cpc' = "r_wait"
                /\ amt = <<0>> => (cpc' = "idle" /\ prev'.ret = "empty")
      /\ (Returns("read") /\ call.arg[1] < 0) => prev'.ret = "InvalidRequest"
    ]_vars

\* C10 witness: a read has ended with InvalidRequest after taking a chunk of
\* one byte, which only a negative amt does.
C10_Witness ==
  /\ prev = [op |-> "read", ret |-> "InvalidRequest", arg |-> 0]
  /\ last_data # None
  /\ last_data[1].len = 1
  /\ position = last_position + 1
  /\ position < src_obj_size

\* C11: seek(0, SEEK_END) sets position to src_obj_size, so that tell returns
\* src_obj_size, saves the former position in last_position, clears last_data
\* and leaves the buffer, bytes_buffered, the stop signal and the download
\* threads alone; seek(k, SEEK_END) with k # 0 ends with InvalidRequest and
\* changes nothing.
C11_SeekEnd ==
  [][ /\ \A k \in Offsets :
           SeekEnd(k) =>
             IF k = 0
               THEN /\ position' = src_obj_size
                    /\ last_position' = position
                    /\ last_data' = None
                    /\ prev' = [op |-> "seek", ret |-> "end", arg |-> 0]
                    /\ UNCHANGED <<buffer, bytes_buffered, lock, control>>
               ELSE /\ prev' = [op |-> "seek", ret |-> "InvalidRequest", arg |-> 0]
                    /\ UNCHANGED <<bridge, lock, control>>
      /\ (prev.ret = "end" /\ Tell) => prev'.arg = src_obj_size
    ]_vars

\* C11 witness: a seek to the end was made in the middle of the object, after
\* a read, with chunks still buffered, and the tell after it has returned.
C11_Witness ==
  /\ prev = [op |-> "tell", ret |-> "ok", arg |-> src_obj_size]
  /\ position = src_obj_size
  /\ 0 < last_position
  /\ last_position < src_obj_size
  /\ last_data = None
  /\ buffer # <<>>
  /\ AliveThreads # {}

\* C12: seek(position, os.SEEK_SET) returns in one step and changes nothing of
\* position, buffer, bytes_buffered, last_position, last_data, the stop signal
\* and the download threads, also when position equals last_position.
C12_SeekToPositionIsNoOp ==
  [][ (cpc = "idle" /\ SeekSet(position))
        => /\ UNCHANGED <<bridge, lock, control>>
           /\ cpc' = "idle"
           /\ prev' = [op |-> "seek", ret |-> "pass", arg |-> position]
    ]_vars

\* C12 witness: a seek to the current position has returned where position
\* equals last_position and last_data still holds the chunk that a rewind put
\* back at the front of the buffer.
C12_Witness ==
  /\ prev.ret = "pass"
  /\ position = last_position
  /\ last_data # None
  /\ buffer # <<>>
  /\ Head(buffer) = last_data[1]

\* C13, as stated: between consumer calls last_data is set only if the call
\* just before was a read that returned data.
C13_LastDataOnlyAfterRead ==
  (cpc = "idle" /\ last_data # None) => (prev.op = "read" /\ prev.ret = "data")

\* C13, amended: last_data changes only where a read takes a chunk, which sets
\* it to that chunk, and where seek(0, SEEK_END) or a restart clears it; it is
\* clear when either of these two returns.  Tell, a seek to the current
\* position and a rewind keep it.
C13_LastDataSetByReadClearedBySeek ==
  [][ /\ last_data' # last_data
           => \/ cpc = "r_pop" /\ cpc' = "r_upd" /\ last_data' = call'.data
              \/ last_data' = None /\ (SeekEnd(0) \/ cpc = "s_reset")
      /\ SeekEnd(0) => last_data' = None
      /\ cpc = "s_start" => last_data = None
      /\ (cpc = "idle" /\ prev.ret \in {"end", "restart"}) => last_data = None
      /\ (cpc = "idle" /\ (Tell \/ SeekSet(position) \/ SeekSet(last_position)))
           => last_data' = last_data
    ]_vars

\* C13 witness: last_data still holds a chunk after a rewind has returned.
C13_Witness ==
  /\ cpc = "idle"
  /\ prev.ret = "rewind"
  /\ last_data # None
  /\ position = last_position

\* C14, as stated: write appends its chunk only in a state where
\* bytes_buffered < max_buffer_size.
C14_AppendOnlyBelowCapacity ==
  [][ \A t \in 1..MaxThreads : WriteAppend(t) => HasSpace ]_vars

\* C15: under fair scheduling, a seek that has taken the restart path goes on
\* to return, the download thread it waited for having exited.
C15_RestartTerminates ==
  (cpc = "s_stop") ~> (cpc = "idle" /\ prev.ret = "restart")

\* C15 witness: the restarting seek is draining a buffer that is at capacity
\* while the download thread waits in write for space.
C15_Witness ==
  /\ cpc = "s_drainloop"
  /\ stop_download
  /\ bytes_buffered >= max_buffer_size
  /\ threads[download_thread].pc = "w_check"

\* The consumer steps that read or write position, buffer, bytes_buffered,
\* last_position or last_data, and the download thread's.
ConsumerAccess ==
  \/ \E amt \in AmtValues : ReadCall(amt)
  \/ ReadWait
  \/ ReadPop
  \/ ReadUpdate
  \/ Tell
  \/ SeekEnd(0)
  \/ \E offset \in Offsets : SeekSet(offset)
  \/ SeekCount
  \/ SeekDrain
  \/ SeekReset

FetchAccess(t) == WriteCheck(t) \/ WriteAppend(t) \/ WriteCount(t)

\* C16, as stated: a step of the consumer or of a download thread that reads
\* or writes position, buffer, bytes_buffered, last_position or last_data is
\* taken with the lock, that is, never while the other side holds it.
C16_AccessOnlyUnderLock ==
  [][ /\ ConsumerAccess => lock \subseteq {0}
      /\ \A t \in 1..MaxThreads : FetchAccess(t) => lock \subseteq {t}
    ]_vars

\* C17, as stated: the stop signal is clear whenever a download thread is
\* started.
C17_StopClearAtStart ==
  [][ StartDownloadThread => ~stop_download ]_vars

\* C18, as stated: the chunk a read takes from the buffer is the source bytes
\* starting at position, the value tell returned just before the read.
C18_ReadTakesBytesAtPosition ==
  [][ /\ (cpc = "r_pop" /\ cpc' = "r_upd") => call'.data[1].off = position
      /\ (prev.op = "tell" /\ cpc = "r_pop" /\ cpc' = "r_upd")
           => call'.data[1].off = prev.arg
    ]_vars

\* C19, as stated: a read that ends with InvalidRequest has taken no chunk and
\* leaves position, buffer, bytes_buffered, last_position and last_data as
\* they were when it was called.
C19_FailedReadChangesNothing ==
  [][ /\ \A amt \in AmtValues :
           (ReadCall(amt) /\ cpc' = "idle" /\ prev'.ret = "InvalidRequest")
             => UNCHANGED bridge
      /\ (Returns("read") /\ prev'.ret = "InvalidRequest")
           => (call.data = None /\ UNCHANGED bridge)
    ]_vars

\* C20: under fair scheduling, with a caller that keeps calling
\* read(TRANSFER_BUFFER_SIZE) and never seeks, position ends at src_obj_size
\* and no download thread is left alive.
C20_SequentialReadsFinish ==
  <>[](position = src_obj_size /\ AliveThreads = {} /\ sequential)

\* C20 witness: without any seek the reads are in progress on an object of
\* several windows, the buffer at capacity and the download thread waiting in
\* write.
C20_Witness ==
  /\ sequential
  /\ src_obj_size > DAISY_CHAIN_CHUNK_SIZE
  /\ delivered # <<>>
  /\ bytes_buffered >= max_buffer_size
  /\ threads[1].pc = "w_check"
  /\ cpc = "r_wait"

====
